---- MODULE Spec2Model ----
(***************************************************************************)
(* Spectra: the recommendation orchestrator (SpectraRecommender) over the  *)
(* media catalog, the similarity index (pgvector queries of the media      *)
(* repository) and the user rating table.                                  *)
(*                                                                         *)
(* Vectors are carried by their length and their origin: the orchestrator  *)
(* never looks inside a query vector, it only measures its length and      *)
(* hands it to the index.  A similarity is carried as twice its value, so  *)
(* that 1 - distance/2 stays an integer for whole cosine distances.        *)
(***************************************************************************)
EXTENDS Integers, Sequences, FiniteSets, TLC

VARIABLES pc, op, result, error, searches, embeds, idx, fetched, filtered,
          user_ratings, profiled, explained, engine, projected, loop, rating_call,
          onboarded, migration

\* the state outside the recommender's own calls and the rating table
aux == <<engine, projected, loop, rating_call, onboarded, migration>>

vars == <<pc, op, result, error, searches, embeds, idx, fetched, filtered,
          user_ratings, profiled, explained, aux>>

(* ------------------------------ bounds --------------------------------- *)
MaxTopK == 2
MaxRows == 3
MaxRatings == 2

(* ------------------------- program constants --------------------------- *)
D == 384
K == 8
OverFetch == 2
DescLimit == 200
Tenth == 1
UserOverFetch == 3
CosineDistMax == 2

(* ------------------------- optional values ----------------------------- *)
None == <<>>
Some(x) == <<x>>

Min(a, b) == IF a < b THEN a ELSE b
Take(s, n) == SubSeq(s, 1, Min(n, Len(s)))
Range(s) == {s[i] : i \in 1..Len(s)}
EmptyDict == [x \in {} |-> <<>>]
DictPut(f, k, v) == [x \in (DOMAIN f) \cup {k} |-> IF x = k THEN v ELSE f[x]]

NoneList == [none |-> TRUE, list |-> <<>>]
ListOf(s) == [none |-> FALSE, list |-> s]

(* ------------------------------ catalog -------------------------------- *)
MediaTypes == <<"movie", "music", "book">>
TypeSet == Range(MediaTypes)

ItemIds == {"m1", "m2", "m3", "m4", "b1"}
MissingIds == {"zz"}

\* A text is carried by its origin, its length and whether the ellipsis
\* marker was appended to it.
Text(of, len) == [of |-> of, len |-> len, ellipsis |-> FALSE]

Metadata(source, ref) == [source |-> source, ref |-> ref]

Catalog ==
  [id \in ItemIds |->
     CASE id = "m1" -> [media_type |-> "movie", year |-> Some(1990),
                        description |-> Text("m1", 0),
                        metadata |-> Metadata("tmdb", "m1")]
       [] id = "m2" -> [media_type |-> "movie", year |-> Some(2000),
                        description |-> Text("m2", 200),
                        metadata |-> Metadata("tmdb", "m2")]
       [] id = "m3" -> [media_type |-> "movie", year |-> Some(2010),
                        description |-> Text("m3", 201),
                        metadata |-> Metadata("tmdb", "m3")]
       [] id = "m4" -> [media_type |-> "movie", year |-> None,
                        description |-> Text("m4", 450),
                        metadata |-> Metadata("tmdb", "m4")]
       [] id = "b1" -> [media_type |-> "book",  year |-> Some(2000),
                        description |-> Text("b1", 120),
                        metadata |-> Metadata("google_books", "b1")]]

ItemsOfType(t) == {id \in ItemIds : Catalog[id].media_type = t}

Users == {"u1", "u2"}
Raters == {"u1"}

(* ----------------------- vectors and queries --------------------------- *)
Vec(kind, len, ref) == [kind |-> kind, len |-> len, ref |-> ref]

TextQuery == Vec("str", 0, "text")
Queries ==
  {TextQuery,
   Vec("list", K, "q8"), Vec("ndarray", K, "q8"),
   Vec("list", D, "q384"), Vec("ndarray", D, "q384"),
   Vec("list", 5, "q5")}

Embed(text) == Vec("ndarray", D, "embed")

ItemTasteVector(id) == Vec("list", K, id)

(* ------------------------- similarity index ---------------------------- *)
Similarity(distance) == 2 - distance

RECURSIVE Perms(_)
Perms(S) ==
  IF S = {} THEN {<<>>}
  ELSE UNION {{<<x>> \o p : p \in Perms(S \ {x})} : x \in S}

NonDecreasing(ds) == \A i \in 1..(Len(ds) - 1) : ds[i] <= ds[i + 1]

Row(id, distance) ==
  [id |-> id, media_type |-> Catalog[id].media_type, year |-> Catalog[id].year,
   description |-> Catalog[id].description, metadata |-> Catalog[id].metadata,
   similarity |-> Similarity(distance)]

RankingsOf ==
  [t \in TypeSet |->
     LET n == Cardinality(ItemsOfType(t))
     IN {[i \in 1..n |-> Row(p[i], ds[i])] :
           p \in Perms(ItemsOfType(t)),
           ds \in {x \in [1..n -> 0..CosineDistMax] : NonDecreasing(x)}}]

IndexResponses ==
  [ts \in SUBSET TypeSet |->
     {[t \in ts |-> CASE t = "movie" -> rm [] t = "music" -> rs [] t = "book" -> rb] :
        rm \in (IF "movie" \in ts THEN RankingsOf["movie"] ELSE {<<>>}),
        rs \in (IF "music" \in ts THEN RankingsOf["music"] ELSE {<<>>}),
        rb \in (IF "book" \in ts THEN RankingsOf["book"] ELSE {<<>>})}]

NoError == "none"
NotFoundError == "ValueError: Item not found"
DataError == "DataError: different vector dimensions"

SearchLog(space, vec, media_type, limit) ==
  [space |-> space, vec |-> vec, media_type |-> media_type, limit |-> limit]

SearchByTaste(taste_vector, media_type, limit, ix) ==
  IF taste_vector.len # K /\ ix[media_type] # <<>>
  THEN [rows |-> <<>>, error |-> DataError]
  ELSE [rows |-> Take(ix[media_type], limit), error |-> NoError]

SearchByEmbedding(embedding, media_type, limit, ix) ==
  IF embedding.len # D /\ ix[media_type] # <<>>
  THEN [rows |-> <<>>, error |-> DataError]
  ELSE [rows |-> Take(ix[media_type], limit), error |-> NoError]

GetItemById(item_id) ==
  IF item_id \in ItemIds
  THEN Some([id |-> item_id, media_type |-> Catalog[item_id].media_type,
             year |-> Catalog[item_id].year,
             taste_vector |-> ItemTasteVector(item_id)])
  ELSE None

(* --------------------------- recommend --------------------------------- *)
DefaultMediaTypes_TwoTypes(media_types) ==
  IF media_types.none THEN <<"movie", "music">> ELSE media_types.list

DefaultMediaTypes(media_types) ==
  IF media_types.none THEN MediaTypes ELSE media_types.list

Truthy(opt) == opt # None /\ opt[1] # 0

YearKeeps(item, min_year, max_year) ==
  IF Truthy(item.year)
  THEN /\ ~(Truthy(min_year) /\ item.year[1] < min_year[1])
       /\ ~(Truthy(max_year) /\ item.year[1] > max_year[1])
  ELSE TRUE

YearFilter(items, min_year, max_year) ==
  IF Truthy(min_year) \/ Truthy(max_year)
  THEN LET Keep(item) == YearKeeps(item, min_year, max_year)
       IN SelectSeq(items, Keep)
  ELSE items

Truncate(items, top_k) == Take(items, top_k)

Shorten_AtLimit(description) ==
  IF description.len >= DescLimit
  THEN [description EXCEPT !.len = DescLimit, !.ellipsis = TRUE]
  ELSE description

Shorten(description) ==
  IF description.len > DescLimit
  THEN [description EXCEPT !.len = DescLimit, !.ellipsis = TRUE]
  ELSE description

Format(items) ==
  [i \in 1..Len(items) |->
     [id |-> items[i].id, media_type |-> items[i].media_type,
      year |-> items[i].year, description |-> Shorten(items[i].description),
      metadata |-> items[i].metadata, similarity |-> items[i].similarity]]

UseEmbeddingSearch_LengthOnly(query) == query.len = D

UseEmbeddingSearch(query) ==
  IF query.kind = "str" THEN TRUE ELSE query.len = D

SearchVector(query) ==
  IF query.kind = "str" THEN Embed(query)
  ELSE Vec("ndarray", query.len, query.ref)

SearchLimit_NoOverFetch(top_k) == top_k

SearchLimit(top_k) == top_k * OverFetch

RecommendSearch(c, media_type, ix) ==
  IF c.use_embedding_search
  THEN SearchByEmbedding(c.search_vector, media_type, SearchLimit(c.top_k), ix)
  ELSE SearchByTaste(c.search_vector, media_type, SearchLimit(c.top_k), ix)

RecommendSpace(c) == IF c.use_embedding_search THEN "embedding" ELSE "taste"

RECURSIVE RecommendLoop(_, _, _, _)
RecommendLoop(c, i, ix, acc) ==
  IF i > Len(c.media_types) THEN acc
  ELSE
    LET t == c.media_types[i]
        s == RecommendSearch(c, t, ix)
        log == Append(acc.searches,
                      SearchLog(RecommendSpace(c), c.search_vector, t,
                                SearchLimit(c.top_k)))
        kept == YearFilter(s.rows, c.min_year, c.max_year)
        items == Truncate(kept, c.top_k)
    IN IF s.error # NoError
       THEN [acc EXCEPT !.error = s.error, !.searches = log,
                        !.results = EmptyDict]
       ELSE RecommendLoop(c, i + 1, ix,
              [acc EXCEPT !.searches = log,
                          !.results = DictPut(@, t, Format(items)),
                          !.fetched = DictPut(@, t, s.rows),
                          !.filtered = DictPut(@, t, kept)])

RecommendImpl(query, media_types, top_k, min_year, max_year, ix) ==
  RecommendLoop(
    [media_types |-> DefaultMediaTypes(media_types),
     use_embedding_search |-> UseEmbeddingSearch(query),
     search_vector |-> SearchVector(query),
     top_k |-> top_k, min_year |-> min_year, max_year |-> max_year],
    1, ix,
    [results |-> EmptyDict, error |-> NoError, searches |-> <<>>,
     embeds |-> IF query.kind = "str" THEN 1 ELSE 0,
     fetched |-> EmptyDict, filtered |-> EmptyDict])

(* -------------------------- find_similar ------------------------------- *)
SimilarTopK_NoExtra(top_k, exclude_same_item) == top_k

SimilarTopK(top_k, exclude_same_item) ==
  IF exclude_same_item THEN top_k + 1 ELSE top_k

ExcludeSource_KeepsSource(items, item_id, top_k) == Take(items, top_k)

ExcludeSource(items, item_id, top_k) ==
  LET Other(item) == item.id # item_id
  IN Take(SelectSeq(items, Other), top_k)

FindSimilarImpl_LateCheck(item_id, media_types, top_k, exclude_same_item, ix) ==
  LET r == RecommendImpl(ItemTasteVector(item_id), media_types,
                         SimilarTopK(top_k, exclude_same_item), None, None,
                         [t \in TypeSet |-> <<>>])
  IN IF GetItemById(item_id) = None
     THEN [r EXCEPT !.results = EmptyDict, !.error = NotFoundError]
     ELSE r

FindSimilarImpl(item_id, media_types, top_k, exclude_same_item, ix) ==
  LET source_item == GetItemById(item_id)
  IN IF source_item = None
     THEN [results |-> EmptyDict, error |-> NotFoundError, searches |-> <<>>,
           embeds |-> 0, fetched |-> EmptyDict, filtered |-> EmptyDict]
     ELSE
       LET r == RecommendImpl(
                  source_item[1].taste_vector, media_types,
                  SimilarTopK(top_k, exclude_same_item), None, None, ix)
       IN IF r.error # NoError \/ ~exclude_same_item THEN r
          ELSE [r EXCEPT !.results =
                  [t \in DOMAIN r.results |->
                     ExcludeSource(r.results[t], item_id, top_k)]]

SimilarStatus(err) ==
  IF err = NoError THEN 200
  ELSE IF err = NotFoundError THEN 404 ELSE 500

(* ---------------------------- ratings ---------------------------------- *)
\* a row of user_ratings without its key and timestamps
RatingRecord(rating, notes, favorite, want_to_consume) ==
  [rating |-> rating, notes |-> notes, favorite |-> favorite,
   want_to_consume |-> want_to_consume]

EmptyTable == [x \in {} |-> RatingRecord(None, None, None, None)]
RatingInputs == {None, Some(5)}

Coalesce_Excluded(new, old) == new

Coalesce(new, old) == IF new # None THEN new ELSE old

\* INSERT ... ON CONFLICT (user_id, item_id) DO UPDATE SET f = COALESCE(...)
UpsertRow(table, user_id, item_id, rating, notes, favorite, want_to_consume) ==
  LET key == <<user_id, item_id>>
  IN IF key \in DOMAIN table
     THEN [table EXCEPT ![key] =
             RatingRecord(Coalesce(rating, table[key].rating),
                          Coalesce(notes, table[key].notes),
                          Coalesce(favorite, table[key].favorite),
                          Coalesce(want_to_consume, table[key].want_to_consume))]
     ELSE [x \in (DOMAIN table) \cup {key} |->
             IF x = key
             THEN RatingRecord(rating, notes, favorite, want_to_consume)
             ELSE table[x]]

\* add_rating with only a rating given
Upsert(table, user_id, item_id, rating) ==
  UpsertRow(table, user_id, item_id, rating, None, None, None)

DeleteRow(table, user_id, item_id) ==
  [x \in (DOMAIN table) \ {<<user_id, item_id>>} |-> table[x]]

GetUserRatingsWithEmbeddings_NullsToo(table, user_id) ==
  {x[2] : x \in {y \in DOMAIN table : y[1] = user_id /\ y[2] \in ItemIds}}

GetUserRatingsWithEmbeddings(table, user_id) ==
  {x[2] : x \in {y \in DOMAIN table :
                   y[1] = user_id /\ y[2] \in ItemIds /\ table[y].rating # None}}

GetRatedItemIds_ScoredOnly(table, user_id) ==
  {x[2] : x \in {y \in DOMAIN table :
                   y[1] = user_id /\ table[y].rating # None}}

GetRatedItemIds(table, user_id) ==
  {x[2] : x \in {y \in DOMAIN table : y[1] = user_id}}

\* the call the repository served last
NoRatingCall ==
  [call |-> "", user_id |-> "", item_id |-> "",
   given |-> RatingRecord(None, None, None, None),
   before |-> EmptyTable, deleted |-> FALSE]

(* ------------------------ recommend_for_user --------------------------- *)
ComputeUserTasteProfile(table, user_id) ==
  LET ratings == GetUserRatingsWithEmbeddings(table, user_id)
  IN IF ratings = {} THEN None
     ELSE Some([embedding_384d |-> Vec("ndarray", D, "weighted_embedding"),
                taste_vector_8d |-> Vec("ndarray", K, "weighted_taste_vector"),
                num_ratings |-> Cardinality(ratings)])

ExcludedIds_ScoredOnly(table, user_id, exclude_rated) ==
  IF exclude_rated THEN GetUserRatingsWithEmbeddings(table, user_id) ELSE {}

ExcludedIds(table, user_id, exclude_rated) ==
  IF exclude_rated THEN GetRatedItemIds(table, user_id) ELSE {}

FilterRated(items, rated_item_ids) ==
  LET Unrated(item) == item.id \notin rated_item_ids
  IN SelectSeq(items, Unrated)

UserSearchVector_Taste(profile) == profile.taste_vector_8d

UserSearchVector(profile) == profile.embedding_384d

UserSearchLimit(top_k) == top_k * UserOverFetch

RECURSIVE UserLoop(_, _, _, _)
UserLoop(c, i, ix, acc) ==
  IF i > Len(c.media_types) THEN acc
  ELSE
    LET t == c.media_types[i]
        s == SearchByEmbedding(c.search_vector, t, UserSearchLimit(c.top_k), ix)
        log == Append(acc.searches,
                      SearchLog("embedding", c.search_vector, t,
                                UserSearchLimit(c.top_k)))
        kept == FilterRated(s.rows, c.rated_item_ids)
        items == Truncate(kept, c.top_k)
    IN IF s.error # NoError
       THEN [acc EXCEPT !.error = s.error, !.searches = log,
                        !.results = EmptyDict]
       ELSE UserLoop(c, i + 1, ix,
              [acc EXCEPT !.searches = log,
                          !.results = DictPut(@, t, Format(items)),
                          !.fetched = DictPut(@, t, s.rows),
                          !.filtered = DictPut(@, t, kept)])

RecommendForUserImpl(table, user_id, media_types, top_k, exclude_rated, ix) ==
  LET profile == ComputeUserTasteProfile(table, user_id)
      empty == [results |-> EmptyDict, error |-> NoError, searches |-> <<>>,
                embeds |-> 0, fetched |-> EmptyDict, filtered |-> EmptyDict]
  IN IF profile = None THEN empty
     ELSE UserLoop(
            [media_types |-> DefaultMediaTypes(media_types),
             search_vector |-> UserSearchVector(profile[1]),
             rated_item_ids |-> ExcludedIds(table, user_id, exclude_rated),
             top_k |-> top_k],
            1, ix, empty)

(* --------------------- compute_user_taste_profile ---------------------- *)
\* The numbers inside stored vectors are carried in tenths, so that the
\* thresholds 0.1 and -0.1 are the whole numbers Tenth and -Tenth.  An
\* average is carried as the vector of its numerators over one common
\* denominator, the sum of the weights.
Unit(n, i, v) == [j \in 1..n |-> IF j = i THEN v ELSE 0]

TasteOf(id) ==
  CASE id = "m1" -> Unit(K, 1, 10)
    [] id = "m2" -> Unit(K, 1, -10)
    [] id = "m3" -> <<1, -1, 2, -2, 0, 10, -10, 1>>
    [] id = "m4" -> Unit(K, 1, 0)
    [] id = "b1" -> <<5, 5, 0, 0, 0, 0, -5, -5>>

EmbeddingOf(id) ==
  CASE id = "m1" -> Unit(D, 1, 10)
    [] id = "m2" -> Unit(D, D, -10)
    [] id = "m3" -> [j \in 1..D |-> 3]
    [] id = "m4" -> Unit(D, 2, 7)
    [] id = "b1" -> [j \in 1..D |-> IF j % 2 = 0 THEN 4 ELSE -4]

RatingValues == {-1, 0, 1, 5}

RatingRow(rating, id) ==
  [rating |-> rating, embedding |-> EmbeddingOf(id),
   taste_vector |-> TasteOf(id)]

RatingSeqs ==
  UNION {{[i \in 1..n |-> RatingRow(w[i], p[i])] :
            w \in [1..n -> RatingValues],
            p \in {q \in [1..n -> ItemIds] :
                     \A i, j \in 1..n : i # j => q[i] # q[j]}} :
         n \in 0..MaxRatings}

DimensionNames ==
  <<"Emotional Tone", "Energy & Intensity", "Complexity", "Abstractness",
    "Aesthetic Style", "Intellectualism", "Conventionality", "Worldview">>

PositiveLabels ==
  <<"Light & Joyful", "Intense & Powerful", "Complex & Layered",
    "Abstract & Symbolic", "Polished & Refined", "Cerebral & Analytical",
    "Experimental & Avant-garde", "Hopeful & Optimistic">>

NegativeLabels ==
  <<"Dark & Melancholic", "Calm & Gentle", "Simple & Minimalist",
    "Concrete & Literal", "Raw & Gritty", "Intuitive & Visceral",
    "Traditional & Familiar", "Cynical & Dark">>

Balanced == "Balanced"

ZeroDivisionError == "ZeroDivisionError: Weights sum to zero"

RECURSIVE SumSeq(_)
SumSeq(s) ==
  IF Len(s) = 0 THEN 0
  ELSE IF Len(s) = 1 THEN s[1]
  ELSE LET half == Len(s) \div 2
       IN SumSeq(SubSeq(s, 1, half)) + SumSeq(SubSeq(s, half + 1, Len(s)))

Average_Unweighted(a, weights) ==
  [error |-> NoError,
   num |-> [j \in 1..Len(a[1]) |-> SumSeq([i \in 1..Len(a) |-> a[i][j]])],
   den |-> Len(a)]

Average(a, weights) ==
  LET scl == SumSeq(weights)
  IN IF scl = 0
     THEN [error |-> ZeroDivisionError, num |-> <<>>, den |-> 0]
     ELSE [error |-> NoError,
           num |-> [j \in 1..Len(a[1]) |->
                      SumSeq([i \in 1..Len(a) |-> a[i][j] * weights[i]])],
           den |-> scl]

\* num/den > c and num/den < c, for a denominator of either sign
Above(num, den, c) == IF den > 0 THEN num > c * den ELSE num < c * den
Below(num, den, c) == IF den > 0 THEN num < c * den ELSE num > c * den

Tendency_Inclusive(i, num, den) ==
  IF ~Below(num, den, Tenth) THEN PositiveLabels[i]
  ELSE IF ~Above(num, den, -Tenth) THEN NegativeLabels[i]
  ELSE Balanced

Tendency(i, num, den) ==
  IF Above(num, den, Tenth) THEN PositiveLabels[i]
  ELSE IF Below(num, den, -Tenth) THEN NegativeLabels[i]
  ELSE Balanced

Breakdown(weighted_taste_vector) ==
  [i \in 1..Min(Len(DimensionNames), Len(weighted_taste_vector.num)) |->
     [dimension |-> DimensionNames[i],
      score |-> [num |-> weighted_taste_vector.num[i],
                 den |-> weighted_taste_vector.den],
      tendency |-> Tendency(i, weighted_taste_vector.num[i],
                            weighted_taste_vector.den)]]

ProfileOf(ratings) ==
  LET weights == [i \in 1..Len(ratings) |-> ratings[i].rating]
      weighted_embedding ==
        Average([i \in 1..Len(ratings) |-> ratings[i].embedding], weights)
      weighted_taste_vector ==
        Average([i \in 1..Len(ratings) |-> ratings[i].taste_vector], weights)
  IN IF weighted_embedding.error # NoError
     THEN [error |-> weighted_embedding.error, value |-> None]
     ELSE [error |-> NoError,
           value |-> Some([embedding_384d |->
                             [num |-> weighted_embedding.num,
                              den |-> weighted_embedding.den],
                           taste_vector_8d |->
                             [num |-> weighted_taste_vector.num,
                              den |-> weighted_taste_vector.den],
                           breakdown |-> Breakdown(weighted_taste_vector),
                           num_ratings |-> Len(ratings)])]

ComputeUserTasteProfileFrom_ZeroOnEmpty(ratings) ==
  IF ratings = <<>>
  THEN [error |-> NoError,
        value |-> Some([embedding_384d |-> [num |-> Unit(D, 1, 0), den |-> 1],
                        taste_vector_8d |-> [num |-> Unit(K, 1, 0), den |-> 1],
                        breakdown |-> Breakdown([num |-> Unit(K, 1, 0), den |-> 1]),
                        num_ratings |-> 0])]
  ELSE ProfileOf(ratings)

ComputeUserTasteProfileFrom(ratings) ==
  IF ratings = <<>> THEN [error |-> NoError, value |-> None]
  ELSE ProfileOf(ratings)

\* GET /users/{user_id}/taste-profile for an existing user
\* the rows get_user_ratings_with_embeddings hands over: the user's rows
\* with a rating, joined with their items, in whatever order the database
\* returns them
RatingRowsOf_AnyUser(table, user_id) ==
  LET keys == {y \in DOMAIN table : y[2] \in ItemIds /\ table[y].rating # None}
      n == Cardinality(keys)
  IN {[i \in 1..n |-> RatingRow(table[p[i]].rating[1], p[i][2])] :
        p \in {q \in [1..n -> keys] : \A i, j \in 1..n : i # j => q[i] # q[j]}}

RatingRowsOf(table, user_id) ==
  LET ids == GetUserRatingsWithEmbeddings(table, user_id)
      n == Cardinality(ids)
  IN {[i \in 1..n |-> RatingRow(table[<<user_id, p[i]>>].rating[1], p[i])] :
        p \in {q \in [1..n -> ids] : \A i, j \in 1..n : i # j => q[i] # q[j]}}

TasteProfileStatus(r) ==
  IF r.error # NoError THEN 500
  ELSE IF r.value = None THEN 404
  ELSE 200

NoProfileCall == [ratings |-> <<>>, error |-> NoError, value |-> None, status |-> 0]

(* ---------------------------- explain_match ---------------------------- *)
\* An error is its exception type and the pieces of its message, in order.
NoException == [type |-> "", msg |-> <<>>]
ValueError(msg) == [type |-> "ValueError", msg |-> msg]

ExplainIds == ItemIds \cup MissingIds \cup {"Not Found"}

ScoreValues == {-10, 0, 5}

UserVectors ==
  [1..K -> ScoreValues] \cup {[j \in 1..n |-> 5] : n \in {0, 5, K - 1, K + 1}}
    \cup {TasteOf(id) : id \in ItemIds}

Abs(x) == IF x < 0 THEN -x ELSE x

Dot(u, v) == SumSeq([i \in 1..Len(u) |-> u[i] * v[i]])

\* dot / (norm(u) * norm(v)), carried as the dot product and the squared
\* product of the norms; numpy divides 0.0 by 0.0 to nan without raising.
CosineSimilarity(u, v) ==
  LET norms2 == Dot(u, u) * Dot(v, v)
  IN [nan |-> norms2 = 0, dot |-> Dot(u, v), norms2 |-> norms2]

DimensionMatch_AlignedOnZero(i, user_taste_vector, item_taste_vector) ==
  LET user_score == user_taste_vector[i]
      item_score == item_taste_vector[i]
      contribution == user_score * item_score
  IN [dimension |-> DimensionNames[i], user_score |-> user_score,
      item_score |-> item_score, contribution |-> contribution,
      aligned |-> contribution >= 0]

DimensionMatch(i, user_taste_vector, item_taste_vector) ==
  LET user_score == user_taste_vector[i]
      item_score == item_taste_vector[i]
      contribution == user_score * item_score
  IN [dimension |-> DimensionNames[i], user_score |-> user_score,
      item_score |-> item_score, contribution |-> contribution,
      aligned |-> contribution > 0]

SortKey_Signed(x) == x.contribution

SortKey(x) == Abs(x.contribution)

\* list.sort(key=..., reverse=True): descending by key, equal keys keep
\* the order they had
RECURSIVE InsertDescending(_, _)
InsertDescending(sorted, x) ==
  IF sorted = <<>> THEN <<x>>
  ELSE IF SortKey(sorted[1]) >= SortKey(x)
       THEN <<sorted[1]>> \o InsertDescending(Tail(sorted), x)
       ELSE <<x>> \o sorted

RECURSIVE SortDescending(_)
SortDescending(items) ==
  IF items = <<>> THEN <<>>
  ELSE InsertDescending(SortDescending(SubSeq(items, 1, Len(items) - 1)),
                        items[Len(items)])

\* The explanation is carried as the pieces it is joined from.  A phrase
\* names its dimension (lower-cased) and which prompt of that dimension its
\* first sentence (lower-cased) was taken from.
Lower(text) == [lower |-> text]

FirstSentence(prompt, dimension) == [prompt |-> prompt, of |-> dimension]

Phrase(match, prompt) ==
  [text |-> "Both lean towards ", dimension |-> Lower(match.dimension),
   descriptor |-> Lower(FirstSentence(prompt, match.dimension))]

Piece(text) == [text |-> text]

IsAligned(d) == d.aligned

TopMatches_FilterFirst(dimension_matches) ==
  Take(SelectSeq(dimension_matches, IsAligned), 3)

TopMatches(dimension_matches) ==
  SelectSeq(Take(dimension_matches, 3), IsAligned)

RECURSIVE ExplanationParts(_)
ExplanationParts(top_matches) ==
  IF top_matches = <<>> THEN <<>>
  ELSE LET match == top_matches[1]
           rest == ExplanationParts(Tail(top_matches))
       IN IF match.user_score > 0 /\ match.item_score > 0
          THEN <<Phrase(match, "positive_prompt")>> \o rest
          ELSE IF match.user_score < 0 /\ match.item_score < 0
          THEN <<Phrase(match, "negative_prompt")>> \o rest
          ELSE rest

RECURSIVE Join(_, _)
Join(sep, parts) ==
  IF Len(parts) <= 1 THEN parts
  ELSE <<parts[1], Piece(sep)>> \o Join(sep, Tail(parts))

Explanation(dimension_matches) ==
  LET explanation_parts == ExplanationParts(TopMatches(dimension_matches))
  IN IF explanation_parts # <<>> THEN Join(". ", explanation_parts)
     ELSE <<Piece("General aesthetic alignment")>>

\* lower-cased text of a message piece holds the words "not found"
HoldsNotFound(piece) == piece \in {" not found", "Not Found"}

ExplainMatch(item_id, user_taste_vector) ==
  LET item == GetItemById(item_id)
  IN IF item = None
     THEN [error |-> ValueError(<<"Item ", item_id, " not found">>),
           value |-> None]
     ELSE LET item_taste_vector == TasteOf(item_id)
          IN IF Len(user_taste_vector) # 8
             THEN [error |-> ValueError(
                     <<"Taste vector must have exactly 8 dimensions, got ",
                       ToString(Len(user_taste_vector))>>),
                   value |-> None]
             ELSE IF Len(item_taste_vector) # 8
             THEN [error |-> ValueError(
                     <<"Item taste vector has invalid length: ",
                       ToString(Len(item_taste_vector))>>),
                   value |-> None]
             ELSE LET dimension_matches ==
                        SortDescending(
                          [i \in 1..Len(DimensionNames) |->
                             DimensionMatch(i, user_taste_vector,
                                            item_taste_vector)])
                  IN [error |-> NoException,
                      value |-> Some(
                        [item |-> [id |-> item[1].id,
                                   media_type |-> item[1].media_type],
                         overall_similarity |->
                           CosineSimilarity(user_taste_vector,
                                            item_taste_vector),
                         dimension_matches |-> dimension_matches,
                         explanation |-> Explanation(dimension_matches)])]

\* ExplainRequest.taste_vector: min_length=8, max_length=8
RequestIsValid(taste_vector) == Len(taste_vector) = 8

ExplainStatus_AllNotFound(e) ==
  IF e.type = "ValueError" THEN 404 ELSE 200

ExplainStatus(e) ==
  IF e.type = "ValueError"
  THEN IF \E i \in 1..Len(e.msg) : HoldsNotFound(e.msg[i]) THEN 404 ELSE 422
  ELSE 200

NoExplainCall ==
  [item_id |-> "", taste_vector |-> <<>>, error |-> NoException,
   value |-> None, status |-> 0]

(* -------------------------- TasteVectorEngine -------------------------- *)
\* Entries of the basis and of embeddings are whole numbers, 1 standing
\* for 1.0.  A matrix is the sequence of its rows.
Shape(m) == <<Len(m), IF Len(m) = 0 THEN 0 ELSE Len(m[1])>>

AxisBasis == [i \in 1..8 |-> Unit(384, i, 1)]

\* contents that data/dimension_vectors.npy may have at startup
BasisFiles ==
  {AxisBasis,
   [i \in 1..8 |-> Unit(384, 385 - i, -1)],
   [i \in 1..8 |-> [j \in 1..384 |-> ((i + j) % 3) - 1]],
   [i \in 1..8 |-> IF i = 8 THEN Unit(384, 1, 0) ELSE Unit(384, i, 1)],
   [i \in 1..7 |-> Unit(384, i, 1)],
   [i \in 1..9 |-> Unit(384, i, 1)],
   [i \in 1..8 |-> Unit(383, i, 1)],
   <<>>}

NoEngine == [state |-> "none", direction_vectors |-> <<>>]

\* TasteVectorEngine.__init__: np.load, then the shape assertion; a failed
\* assertion leaves no engine and startup re-raises.
NewEngine_AnyShape(file) == [state |-> "ready", direction_vectors |-> file]

NewEngine(file) ==
  IF Shape(file) = <<8, 384>>
  THEN [state |-> "ready", direction_vectors |-> file]
  ELSE [state |-> "failed", direction_vectors |-> <<>>]

Embeddings ==
  {[j \in 1..D |-> CASE j = 1 -> 2 [] j = 2 -> 5 [] j = 3 -> 9 [] OTHER -> 0],
   [j \in 1..D |-> 1],
   [j \in 1..D |-> IF j % 2 = 0 THEN -3 ELSE 4],
   Unit(D, D, 7),
   Unit(D, 1, 0)}

Scalars == {-2, 0, 3}

VecAdd(a, b) == [j \in 1..Len(a) |-> a[j] + b[j]]
VecScale(c, a) == [j \in 1..Len(a) |-> c * a[j]]

\* direction_vectors @ embedding
MatVec(m, v) == [i \in 1..Len(m) |-> Dot(m[i], v)]

\* embedding @ direction_vectors.T
MatMulT(rows, m) ==
  [r \in 1..Len(rows) |-> [i \in 1..Len(m) |-> Dot(rows[r], m[i])]]

Project_Rectified(direction_vectors, embedding) ==
  [i \in 1..Len(direction_vectors) |->
     IF Dot(direction_vectors[i], embedding) < 0 THEN 0
     ELSE Dot(direction_vectors[i], embedding)]

Project(direction_vectors, embedding) == MatVec(direction_vectors, embedding)

ProjectBatch(direction_vectors, embeddings) ==
  MatMulT(embeddings, direction_vectors)

NoProjectCall ==
  [a |-> <<>>, b |-> <<>>, c |-> 0, of_a |-> <<>>, of_b |-> <<>>,
   of_sum |-> <<>>, of_scaled |-> <<>>, of_batch |-> <<>>]

(* ----------------------------- onboarding ------------------------------ *)
MaxEntries == 4

\* media_items as the onboarding endpoint sees it: the media type of each
\* item that exists
OnboardingItems == {"m1", "b1", "s1", "g1"}

MediaTypeOf(id) ==
  IF id = "m1" THEN "movie"
  ELSE IF id = "b1" THEN "book"
  ELSE IF id = "s1" THEN "music"
  ELSE "game"

ItemExists(id) == id \in OnboardingItems

OnboardingRating(item_id, rating) == [item_id |-> item_id, rating |-> rating]

\* rating: int, ge=1, le=5
OnboardingRatings == {1, 5}

\* ratings: List[OnboardingRating], min_length=1
SubmitPreferencesRequests ==
  UNION {[1..n -> {OnboardingRating(i, r) :
                     i \in OnboardingItems \cup MissingIds,
                     r \in OnboardingRatings}] : n \in 1..MaxEntries}

KnownUsers == {"u1"}

GroupedTypes_AllPresent(ratings) == {"movie", "book", "music"}

\* the keys of rated_items after the first loop
GroupedTypes(ratings) ==
  {MediaTypeOf(ratings[i].item_id) :
     i \in {j \in 1..Len(ratings) :
              /\ ItemExists(ratings[j].item_id)
              /\ MediaTypeOf(ratings[j].item_id) \in {"movie", "book", "music"}}}

\* the detail of the first minimum requirement that is not met, or ""
MissingCategory(ratings) ==
  LET rated_items == GroupedTypes(ratings)
  IN IF "movie" \notin rated_items THEN "Please rate at least 1 movie"
     ELSE IF "book" \notin rated_items THEN "Please rate at least 1 book"
     ELSE IF "music" \notin rated_items
          THEN "Please rate at least 1 music/artist"
          ELSE ""

RECURSIVE AddRatings(_, _, _, _)
\* the second loop from entry i on: acc is the table and added_count
AddRatings(user_id, ratings, i, acc) ==
  IF i > Len(ratings) THEN acc
  ELSE IF ~ItemExists(ratings[i].item_id)
       THEN AddRatings(user_id, ratings, i + 1, acc)
       ELSE AddRatings(user_id, ratings, i + 1,
              [table |-> UpsertRow(acc.table, user_id, ratings[i].item_id,
                                   Some(ratings[i].rating), None, None, None),
               added_count |-> acc.added_count + 1])

SubmitInitialPreferences(table, user_id, ratings) ==
  IF user_id \notin KnownUsers
  THEN [status |-> 404, detail |-> "User not found", items_added |-> 0,
        table |-> table]
  ELSE IF MissingCategory(ratings) # ""
  THEN [status |-> 400, detail |-> MissingCategory(ratings), items_added |-> 0,
        table |-> table]
  ELSE LET done == AddRatings(user_id, ratings, 1,
                              [table |-> table, added_count |-> 0])
       IN [status |-> 200, detail |-> "", items_added |-> done.added_count,
           table |-> done.table]

NoSubmission ==
  [user_id |-> "", ratings |-> <<>>, status |-> 0, detail |-> "",
   items_added |-> 0, before |-> EmptyTable]

(* --------------------------- migration runner -------------------------- *)
\* The stems of the .sql files that may lie in the migrations directory,
\* as their characters: "1", "10" and "2".
MigrationStems == {<<1>>, <<1, 0>>, <<2>>}

NoVersion == <<>>

RECURSIVE PathLess(_, _)
\* the order of sorted() on paths of one directory: character by character
PathLess(a, b) ==
  IF a = <<>> THEN b # <<>>
  ELSE IF b = <<>> THEN FALSE
  ELSE IF a[1] # b[1] THEN a[1] < b[1]
  ELSE PathLess(Tail(a), Tail(b))

RECURSIVE GetMigrationFiles(_)
GetMigrationFiles(disk) ==
  IF disk = {} THEN <<>>
  ELSE LET first == CHOOSE f \in disk : \A g \in disk \ {f} : PathLess(f, g)
       IN <<first>> \o GetMigrationFiles(disk \ {first})

\* disk: the files in the directory; table_exists, applied and schema: what
\* is committed in the database (schema counts how often the SQL of a
\* version was committed); tx_sql and tx_rec: the open transaction; the
\* rest: one run of run_migrations
FreshDatabase ==
  [disk |-> {}, table_exists |-> FALSE, applied |-> {},
   schema |-> [v \in MigrationStems |-> 0],
   tx_sql |-> {}, tx_rec |-> {},
   at |-> "idle", files |-> <<>>, applied_versions |-> {}, i |-> 0,
   executed |-> <<>>, failed |-> NoVersion, resume_from |-> NoVersion]

Rollback(m) == [m EXCEPT !.tx_sql = {}, !.tx_rec = {}]

\* except Exception: db.conn.rollback(); raise
OnError_Continue(m) == [m EXCEPT !.i = @ + 1, !.at = "loop"]

OnError(m) == [Rollback(m) EXCEPT !.at = "failed", !.failed = m.files[m.i]]

\* db.conn.commit()
CommitTransaction(m) ==
  [m EXCEPT !.applied = @ \cup m.tx_rec,
            !.schema = [v \in MigrationStems |->
                          IF v \in m.tx_sql THEN @[v] + 1 ELSE @[v]],
            !.tx_sql = {}, !.tx_rec = {}]

(* ------------------- requests on the shared connection ---------------- *)
\* One recommender, one DatabaseConnection and one cursor serve every
\* request.  A handler is a coroutine on the one event loop: it keeps the
\* loop until it awaits or returns, and the recommendation handlers call
\* the recommender without awaiting.
Requests == {1, 2}

SearchQueries == {"qa", "qb"}

LookupIds == {"m1", "b1"}

\* the result set the database produces for a statement
ResultSet(statement, arg) ==
  IF statement = "get_item_by_id" THEN <<[of |-> arg, row |-> 1]>>
  ELSE <<[of |-> arg, row |-> 1], [of |-> arg, row |-> 2]>>

NoRequest ==
  [at |-> "idle", item_id |-> "", query |-> "", item |-> <<>>, rows |-> <<>>]

IdleLoop ==
  [running |-> 0, cursor |-> <<>>, reqs |-> [r \in Requests |-> NoRequest]]

\* whether the handler gives up the event loop after the given point
Yields_AtEveryStatement(at) == TRUE

Yields(at) == FALSE

\* cursor.execute replaces the cursor's result set
CursorExecute(l, statement, arg) ==
  [l EXCEPT !.cursor = ResultSet(statement, arg)]

\* cursor.fetchone / fetchall hand out what the cursor holds
CursorFetch(l) == [l EXCEPT !.cursor = <<>>]

Advance(l, r, at) ==
  [l EXCEPT !.reqs[r].at = at,
            !.running = IF at = "done" \/ Yields(at) THEN 0 ELSE r]

(* ------------------------------ state ---------------------------------- *)
NoOp ==
  [name |-> "none", query |-> TextQuery, item_id |-> "", user_id |-> "",
   media_types |-> NoneList, top_k |-> 0, min_year |-> None,
   max_year |-> None, exclude |-> FALSE]

MediaTypeInputs ==
  {NoneList, ListOf(<<>>), ListOf(<<"movie">>), ListOf(<<"book", "music">>)}

YearInputs == {None, Some(0), Some(2000)}

InitAux ==
  /\ engine = NoEngine
  /\ projected = NoProjectCall
  /\ loop = IdleLoop
  /\ rating_call = NoRatingCall
  /\ onboarded = NoSubmission
  /\ migration = FreshDatabase

ReturnAux ==
  /\ projected' = NoProjectCall
  /\ rating_call' = NoRatingCall
  /\ onboarded' = NoSubmission
  /\ UNCHANGED <<engine, loop, migration>>

Init ==
  /\ pc = "idle"
  /\ op = NoOp
  /\ result = EmptyDict
  /\ error = NoError
  /\ searches = <<>>
  /\ embeds = 0
  /\ idx = EmptyDict
  /\ fetched = EmptyDict
  /\ filtered = EmptyDict
  /\ user_ratings = EmptyTable
  /\ profiled = NoProfileCall
  /\ explained = NoExplainCall
  /\ InitAux

Finish(call, r, ix) ==
  /\ pc' = "done"
  /\ op' = call
  /\ result' = r.results
  /\ error' = r.error
  /\ searches' = r.searches
  /\ embeds' = r.embeds
  /\ fetched' = r.fetched
  /\ filtered' = r.filtered
  /\ idx' = ix
  /\ UNCHANGED <<user_ratings, profiled, explained, aux>>

Recommend ==
  /\ pc = "idle"
  /\ \E query \in Queries, media_types \in MediaTypeInputs,
        top_k \in 1..MaxTopK, min_year \in YearInputs, max_year \in YearInputs :
       \E ix \in IndexResponses[Range(DefaultMediaTypes(media_types))] :
         Finish([NoOp EXCEPT !.name = "recommend", !.query = query,
                             !.media_types = media_types, !.top_k = top_k,
                             !.min_year = min_year, !.max_year = max_year],
                RecommendImpl(query, media_types, top_k, min_year, max_year, ix),
                ix)

SourceAtZero(ix, item_id) ==
  \A t \in DOMAIN ix : \A i \in 1..Len(ix[t]) :
    ix[t][i].id = item_id => ix[t][i].similarity = Similarity(0)

FindSimilar ==
  /\ pc = "idle"
  /\ \E item_id \in ItemIds \cup MissingIds, media_types \in MediaTypeInputs,
        top_k \in 1..MaxTopK, exclude_same_item \in BOOLEAN :
       \E ix \in IF item_id \in ItemIds
                 THEN {x \in IndexResponses[Range(DefaultMediaTypes(media_types))] :
                         SourceAtZero(x, item_id)}
                 ELSE {EmptyDict} :
         Finish([NoOp EXCEPT !.name = "find_similar", !.item_id = item_id,
                             !.media_types = media_types, !.top_k = top_k,
                             !.exclude = exclude_same_item],
                FindSimilarImpl(item_id, media_types, top_k, exclude_same_item, ix),
                ix)

RecommendForUser ==
  /\ pc = "idle"
  /\ \E user_id \in Users, media_types \in MediaTypeInputs,
        top_k \in 1..MaxTopK, exclude_rated \in BOOLEAN :
       \E ix \in IF ComputeUserTasteProfile(user_ratings, user_id) = None
                 THEN {EmptyDict}
                 ELSE IndexResponses[Range(DefaultMediaTypes(media_types))] :
         Finish([NoOp EXCEPT !.name = "recommend_for_user", !.user_id = user_id,
                             !.media_types = media_types, !.top_k = top_k,
                             !.exclude = exclude_rated],
                RecommendForUserImpl(user_ratings, user_id, media_types, top_k,
                                     exclude_rated, ix),
                ix)

AddRating ==
  /\ pc = "idle"
  /\ \E user_id \in Raters, item_id \in ItemIds, rating \in RatingInputs :
       /\ \/ <<user_id, item_id>> \in DOMAIN user_ratings
          \/ Cardinality(DOMAIN user_ratings) < MaxRows
       /\ user_ratings' = Upsert(user_ratings, user_id, item_id, rating)
  /\ UNCHANGED <<pc, op, result, error, searches, embeds, idx, fetched, filtered,
                 profiled, explained, aux>>

DeleteRating ==
  /\ pc = "idle"
  /\ \E user_id \in Raters, item_id \in ItemIds :
       user_ratings' = DeleteRow(user_ratings, user_id, item_id)
  /\ UNCHANGED <<pc, op, result, error, searches, embeds, idx, fetched, filtered,
                 profiled, explained, aux>>

Return ==
  /\ pc = "done"
  /\ pc' = "idle"
  /\ op' = NoOp
  /\ result' = EmptyDict
  /\ error' = NoError
  /\ searches' = <<>>
  /\ embeds' = 0
  /\ idx' = EmptyDict
  /\ fetched' = EmptyDict
  /\ filtered' = EmptyDict
  /\ profiled' = NoProfileCall
  /\ explained' = NoExplainCall
  /\ ReturnAux
  /\ UNCHANGED user_ratings

Next == Recommend \/ FindSimilar \/ Return

Spec == Init /\ [][Next]_vars

(* the rating repository with every field of a row *)
RatedItems == {"m1", "m3"}

StoredRatings == {None, Some(3), Some(5)}

NotesInputs == {None, Some("n")}

FlagInputs == {None, Some(TRUE), Some(FALSE)}

WantInputs == {None, Some(TRUE)}

\* another user's row, present or not, before the calls that are followed
OtherUsersRows ==
  {EmptyTable, Upsert(EmptyTable, "u2", "m1", Some(5))}

AddRatingCall ==
  /\ pc = "idle"
  /\ \E user_id \in Raters, item_id \in RatedItems, rating \in StoredRatings,
        notes \in NotesInputs, favorite \in FlagInputs,
        want_to_consume \in WantInputs :
       /\ user_ratings' = UpsertRow(user_ratings, user_id, item_id, rating,
                                    notes, favorite, want_to_consume)
       /\ rating_call' = [NoRatingCall EXCEPT
                      !.call = "add_rating", !.user_id = user_id,
                      !.item_id = item_id,
                      !.given = RatingRecord(rating, notes, favorite,
                                             want_to_consume),
                      !.before = user_ratings]
  /\ pc' = "done"
  /\ op' = [NoOp EXCEPT !.name = "add_rating"]
  /\ UNCHANGED <<result, error, searches, embeds, idx, fetched, filtered,
                 profiled, explained, engine, projected, loop, onboarded,
                 migration>>

DeleteRatingCall ==
  /\ pc = "idle"
  /\ \E user_id \in Raters, item_id \in RatedItems :
       /\ user_ratings' = DeleteRow(user_ratings, user_id, item_id)
       /\ rating_call' = [NoRatingCall EXCEPT
                      !.call = "delete_rating", !.user_id = user_id,
                      !.item_id = item_id, !.before = user_ratings,
                      !.deleted = <<user_id, item_id>> \in DOMAIN user_ratings]
  /\ pc' = "done"
  /\ op' = [NoOp EXCEPT !.name = "delete_rating"]
  /\ UNCHANGED <<result, error, searches, embeds, idx, fetched, filtered,
                 profiled, explained, engine, projected, loop, onboarded,
                 migration>>

\* compute_user_taste_profile(user_id) on the table as it is now
ProfileCall ==
  /\ pc = "idle"
  /\ \E user_id \in Users :
       \E ratings \in RatingRowsOf(user_ratings, user_id) :
         LET r == ComputeUserTasteProfileFrom(ratings)
         IN /\ profiled' = [ratings |-> ratings, error |-> r.error,
                            value |-> r.value, status |-> TasteProfileStatus(r)]
            /\ op' = [NoOp EXCEPT !.name = "compute_user_taste_profile",
                                  !.user_id = user_id]
  /\ pc' = "done"
  /\ UNCHANGED <<result, error, searches, embeds, idx, fetched, filtered,
                 user_ratings, explained, aux>>

InitRatings ==
  /\ pc = "idle"
  /\ op = NoOp
  /\ result = EmptyDict
  /\ error = NoError
  /\ searches = <<>>
  /\ embeds = 0
  /\ idx = EmptyDict
  /\ fetched = EmptyDict
  /\ filtered = EmptyDict
  /\ user_ratings \in OtherUsersRows
  /\ profiled = NoProfileCall
  /\ explained = NoExplainCall
  /\ InitAux

NextRatings == AddRatingCall \/ DeleteRatingCall \/ ProfileCall \/ Return

SpecRatings == InitRatings /\ [][NextRatings]_vars

(* rows that carry a rating and rows that carry only a mark *)
MarkedItems == {"m1", "b1"}

MarkInputs ==
  {RatingRecord(Some(5), None, None, None),
   RatingRecord(None, None, Some(TRUE), None),
   RatingRecord(None, None, None, Some(TRUE))}

\* POST /users/{user_id}/ratings with a rating, a favorite mark or a
\* want-to-consume mark
MarkItem ==
  /\ pc = "idle"
  /\ \E user_id \in Raters, item_id \in MarkedItems, given \in MarkInputs :
       user_ratings' = UpsertRow(user_ratings, user_id, item_id, given.rating,
                                 given.notes, given.favorite,
                                 given.want_to_consume)
  /\ UNCHANGED <<pc, op, result, error, searches, embeds, idx, fetched, filtered,
                 profiled, explained, aux>>

NextMarks == MarkItem \/ DeleteRating \/ RecommendForUser \/ Return

SpecMarks == Init /\ [][NextMarks]_vars

\* POST /onboarding/{user_id}/preferences
SubmitPreferences ==
  /\ pc = "idle"
  /\ \E user_id \in KnownUsers \cup {"nobody"},
        ratings \in SubmitPreferencesRequests :
       LET r == SubmitInitialPreferences(user_ratings, user_id, ratings)
       IN /\ user_ratings' = r.table
          /\ onboarded' = [user_id |-> user_id, ratings |-> ratings,
                           status |-> r.status, detail |-> r.detail,
                           items_added |-> r.items_added,
                           before |-> user_ratings]
  /\ pc' = "done"
  /\ op' = [NoOp EXCEPT !.name = "submit_initial_preferences"]
  /\ UNCHANGED <<result, error, searches, embeds, idx, fetched, filtered,
                 profiled, explained, engine, projected, loop, rating_call,
                 migration>>

NextOnboarding == SubmitPreferences \/ Return

SpecOnboarding == Init /\ [][NextOnboarding]_vars

Others == <<pc, op, result, error, searches, embeds, idx, fetched, filtered,
            user_ratings, profiled, explained, engine, projected, loop,
            rating_call, onboarded>>

\* a new migration file is put into the directory between two runs
AddMigrationFile ==
  /\ migration.at \in {"idle", "ok", "failed"}
  /\ \E f \in MigrationStems \ migration.disk :
       migration' = [migration EXCEPT !.disk = @ \cup {f}]
  /\ UNCHANGED Others

\* run_migrations up to the loop
StartRun ==
  /\ migration.at \in {"idle", "ok", "failed"}
  /\ LET files == GetMigrationFiles(migration.disk)
     IN migration' = [migration EXCEPT
                        !.table_exists = TRUE,
                        !.applied_versions = migration.applied,
                        !.files = files,
                        !.i = 1,
                        !.executed = <<>>,
                        !.resume_from = migration.failed,
                        !.failed = NoVersion,
                        !.at = IF files = <<>> THEN "ok" ELSE "loop"]
  /\ UNCHANGED Others

InLoop ==
  /\ migration.at = "loop"
  /\ migration.i <= Len(migration.files)

\* if version in applied_versions: continue
SkipApplied ==
  /\ InLoop
  /\ migration.files[migration.i] \in migration.applied_versions
  /\ migration' = [migration EXCEPT !.i = @ + 1]
  /\ UNCHANGED Others

\* db.cursor.execute(sql), which may raise
ExecuteSql ==
  /\ InLoop
  /\ migration.files[migration.i] \notin migration.applied_versions
  /\ LET version == migration.files[migration.i]
         tried == [migration EXCEPT !.executed = Append(@, version)]
     IN \/ migration' = [tried EXCEPT !.tx_sql = @ \cup {version},
                                      !.at = "executed"]
        \/ migration' = OnError(tried)
  /\ UNCHANGED Others

\* INSERT INTO schema_migrations (version), which may raise
RecordVersion ==
  /\ migration.at = "executed"
  /\ \/ migration' = [migration EXCEPT
                         !.tx_rec = @ \cup {migration.files[migration.i]},
                         !.at = "recorded"]
     \/ migration' = OnError(migration)
  /\ UNCHANGED Others

\* db.conn.commit(), which may raise
CommitMigration ==
  /\ migration.at = "recorded"
  /\ \/ migration' = [CommitTransaction(migration) EXCEPT !.i = @ + 1,
                                                          !.at = "loop"]
     \/ migration' = OnError(migration)
  /\ UNCHANGED Others

\* the loop is over: "All migrations complete"
FinishRun ==
  /\ migration.at = "loop"
  /\ migration.i > Len(migration.files)
  /\ migration' = [migration EXCEPT !.at = "ok"]
  /\ UNCHANGED Others

NextMigrate ==
  \/ AddMigrationFile
  \/ StartRun
  \/ SkipApplied
  \/ ExecuteSql
  \/ RecordVersion
  \/ CommitMigration
  \/ FinishRun

SpecMigrate == Init /\ [][NextMigrate]_vars

NextUser == AddRating \/ DeleteRating \/ RecommendForUser \/ Return

SpecUser == Init /\ [][NextUser]_vars

ComputeProfile ==
  /\ pc = "idle"
  /\ \E ratings \in RatingSeqs :
       LET r == ComputeUserTasteProfileFrom(ratings)
       IN profiled' = [ratings |-> ratings, error |-> r.error, value |-> r.value,
                       status |-> TasteProfileStatus(r)]
  /\ pc' = "done"
  /\ op' = [NoOp EXCEPT !.name = "compute_user_taste_profile"]
  /\ UNCHANGED <<result, error, searches, embeds, idx, fetched, filtered,
                 user_ratings, explained, aux>>

NextProfile == ComputeProfile \/ Return

\* recommender.explain_match called directly
Explain ==
  /\ pc = "idle"
  /\ \E item_id \in ExplainIds, user_taste_vector \in UserVectors :
       LET r == ExplainMatch(item_id, user_taste_vector)
       IN explained' = [item_id |-> item_id, taste_vector |-> user_taste_vector,
                        error |-> r.error, value |-> r.value, status |-> 0]
  /\ pc' = "done"
  /\ op' = [NoOp EXCEPT !.name = "explain_match"]
  /\ UNCHANGED <<result, error, searches, embeds, idx, fetched, filtered,
                 user_ratings, profiled, aux>>

\* POST /explain: the request is validated, then explain_match is called
\* and its ValueError is mapped to a status.  A nan similarity is left to
\* the JSON encoder of the framework, which either writes it or fails.
ExplainEndpoint ==
  /\ pc = "idle"
  /\ \E item_id \in ExplainIds, taste_vector \in UserVectors :
       IF ~RequestIsValid(taste_vector)
       THEN explained' = [item_id |-> item_id, taste_vector |-> taste_vector,
                          error |-> [type |-> "RequestValidationError",
                                     msg |-> <<"taste_vector">>],
                          value |-> None, status |-> 422]
       ELSE LET r == ExplainMatch(item_id, taste_vector)
            IN \E status \in IF r.value # None /\ r.value[1].overall_similarity.nan
                              THEN {200, 500}
                              ELSE {ExplainStatus(r.error)} :
                 explained' = [item_id |-> item_id, taste_vector |-> taste_vector,
                               error |-> r.error, value |-> r.value,
                               status |-> status]
  /\ pc' = "done"
  /\ op' = [NoOp EXCEPT !.name = "explain_endpoint"]
  /\ UNCHANGED <<result, error, searches, embeds, idx, fetched, filtered,
                 user_ratings, profiled, aux>>

NextExplain == Explain \/ ExplainEndpoint \/ Return

SpecExplain == Init /\ [][NextExplain]_vars

SpecProfile == Init /\ [][NextProfile]_vars

frame == <<op, result, error, searches, embeds, idx, fetched, filtered,
           user_ratings, profiled, explained>>

\* process start: SpectraRecommender() builds the engine once
ConstructEngine ==
  /\ pc = "idle"
  /\ engine.state = "none"
  /\ \E file \in BasisFiles : engine' = NewEngine(file)
  /\ UNCHANGED <<pc, frame, projected, loop, rating_call, onboarded,
                 migration>>

\* engine.project on single embeddings and on a batch of two
ProjectCall ==
  /\ pc = "idle"
  /\ engine.state = "ready"
  /\ \E a \in Embeddings, b \in Embeddings, c \in Scalars :
       projected' =
         [a |-> a, b |-> b, c |-> c,
          of_a |-> Project(engine.direction_vectors, a),
          of_b |-> Project(engine.direction_vectors, b),
          of_sum |-> Project(engine.direction_vectors, VecAdd(a, b)),
          of_scaled |-> Project(engine.direction_vectors, VecScale(c, a)),
          of_batch |-> ProjectBatch(engine.direction_vectors, <<a, b>>)]
  /\ pc' = "done"
  /\ op' = [NoOp EXCEPT !.name = "project"]
  /\ UNCHANGED <<result, error, searches, embeds, idx, fetched, filtered,
                 user_ratings, profiled, explained, engine, loop, rating_call, onboarded,
                 migration>>

NextEngine == ConstructEngine \/ ProjectCall \/ Return

SpecEngine == Init /\ [][NextEngine]_vars

MayRun(r, at) ==
  /\ pc = "idle"
  /\ loop.reqs[r].at = at
  /\ loop.running \in {0, r}

\* the event loop starts the handler of a new find_similar request
Accept(r) ==
  /\ pc = "idle"
  /\ loop.reqs[r].at = "idle"
  /\ loop.running = 0
  /\ \E item_id \in LookupIds, query \in SearchQueries :
       loop' = Advance([loop EXCEPT !.reqs[r] =
                          [NoRequest EXCEPT !.item_id = item_id,
                                            !.query = query]],
                       r, "start")
  /\ UNCHANGED <<pc, frame, engine, projected, rating_call, onboarded,
                 migration>>

\* get_item_by_id: self.cursor.execute(query, (item_id,))
LookupExecute(r) ==
  /\ MayRun(r, "start")
  /\ loop' = Advance(CursorExecute(loop, "get_item_by_id",
                                    loop.reqs[r].item_id), r, "looked")
  /\ UNCHANGED <<pc, frame, engine, projected, rating_call, onboarded,
                 migration>>

\* get_item_by_id: row = self.cursor.fetchone()
LookupFetch(r) ==
  /\ MayRun(r, "looked")
  /\ loop' = Advance([CursorFetch(loop) EXCEPT !.reqs[r].item = loop.cursor],
                      r, "got_item")
  /\ UNCHANGED <<pc, frame, engine, projected, rating_call, onboarded,
                 migration>>

\* search_by_taste: self.cursor.execute(query, ...)
SearchExecute(r) ==
  /\ MayRun(r, "got_item")
  /\ loop' = Advance(CursorExecute(loop, "search_by_taste",
                                    loop.reqs[r].query), r, "searched")
  /\ UNCHANGED <<pc, frame, engine, projected, rating_call, onboarded,
                 migration>>

\* search_by_taste: rows = self.cursor.fetchall(); the handler returns
SearchFetch(r) ==
  /\ MayRun(r, "searched")
  /\ loop' = Advance([CursorFetch(loop) EXCEPT !.reqs[r].rows = loop.cursor],
                      r, "done")
  /\ UNCHANGED <<pc, frame, engine, projected, rating_call, onboarded,
                 migration>>

\* the response is sent and the slot is free for the next request
Respond(r) ==
  /\ pc = "idle"
  /\ loop.reqs[r].at = "done"
  /\ loop' = [loop EXCEPT !.reqs[r] = NoRequest]
  /\ UNCHANGED <<pc, frame, engine, projected, rating_call, onboarded,
                 migration>>

NextLoop ==
  \E r \in Requests :
    \/ Accept(r)
    \/ LookupExecute(r)
    \/ LookupFetch(r)
    \/ SearchExecute(r)
    \/ SearchFetch(r)
    \/ Respond(r)

SpecLoop == Init /\ [][NextLoop]_vars

\* Both recommendation entry points over a rating table that earlier
\* add_rating calls left behind.
SeedTables ==
  {EmptyTable,
   Upsert(EmptyTable, "u1", "b1", Some(5)),
   Upsert(Upsert(EmptyTable, "u1", "m3", Some(5)), "u1", "m1", None)}

InitServe ==
  /\ pc = "idle"
  /\ op = NoOp
  /\ result = EmptyDict
  /\ error = NoError
  /\ searches = <<>>
  /\ embeds = 0
  /\ idx = EmptyDict
  /\ fetched = EmptyDict
  /\ filtered = EmptyDict
  /\ user_ratings \in SeedTables
  /\ profiled = NoProfileCall
  /\ explained = NoExplainCall
  /\ InitAux

NextServe == Recommend \/ RecommendForUser \/ Return

SpecServe == InitServe /\ [][NextServe]_vars

(* ====================== properties of the orchestrator ================= *)
Done(name) == pc = "done" /\ op.name = name

Ids(items) == {items[i].id : i \in 1..Len(items)}

PosIn(items, id) == CHOOSE i \in 1..Len(items) : items[i].id = id

IsOrderedSubsequence(sub, items) ==
  /\ \A i \in 1..Len(sub) :
       \E j \in 1..Len(items) :
         items[j].id = sub[i].id /\ items[j].similarity = sub[i].similarity
  /\ \A i, j \in 1..Len(sub) :
       i < j => PosIn(items, sub[i].id) < PosIn(items, sub[j].id)

NonIncreasingSimilarity(items) ==
  \A i, j \in 1..Len(items) : i < j => items[i].similarity >= items[j].similarity

RowsOfUser(user_id) == {i \in ItemIds : <<user_id, i>> \in DOMAIN user_ratings}

ScoredOfUser(user_id) ==
  {i \in RowsOfUser(user_id) : user_ratings[<<user_id, i>>].rating # None}

\* C1: find_similar with exclusion enabled never returns the source item:
\* no item of any returned bucket has the id the call was made for.
C1_SourceNeverReturned ==
  (Done("find_similar") /\ op.exclude) =>
    \A t \in DOMAIN result : op.item_id \notin Ids(result[t])

\* C1 witness: the index ranked the source first for a type and the call
\* still filled that bucket.
C1_Witness ==
  /\ Done("find_similar") /\ op.exclude /\ error = NoError
  /\ \E t \in DOMAIN result :
       /\ idx[t] # <<>> /\ idx[t][1].id = op.item_id
       /\ result[t] # <<>>

\* C2: recommend_for_user with exclude_rated never returns an item the user
\* has a rating row for, and a type whose every fetched candidate has such a
\* row gets an empty bucket without an error.
C2_RatedNeverReturned ==
  (Done("recommend_for_user") /\ op.exclude) =>
    /\ \A t \in DOMAIN result :
         Ids(result[t]) \cap RowsOfUser(op.user_id) = {}
    /\ \A t \in DOMAIN idx :
         Ids(Take(idx[t], op.top_k * UserOverFetch)) \subseteq RowsOfUser(op.user_id)
           => /\ error = NoError
              /\ t \in DOMAIN result
              /\ result[t] = <<>>

\* C2 witness: the index returned candidates for a type and the user has
\* rated every one of them.
C2_Witness ==
  /\ Done("recommend_for_user") /\ op.exclude /\ error = NoError
  /\ \E t \in DOMAIN result :
       /\ Len(idx[t]) > op.top_k * UserOverFetch
       /\ Ids(Take(idx[t], op.top_k * UserOverFetch)) \subseteq RowsOfUser(op.user_id)
       /\ result[t] = <<>>

\* C3: each bucket of recommend is the first top_k items of the year-filtered
\* list, which is an order-preserving selection from the first 2*top_k
\* candidates of the index; the bucket has at most top_k items and
\* non-increasing similarity.
C3_BucketIsPrefixOfFiltered ==
  (Done("recommend") /\ error = NoError) =>
    \A t \in DOMAIN result :
      /\ Len(fetched[t]) = Min(2 * op.top_k, Len(idx[t]))
      /\ \A i \in 1..Len(fetched[t]) : fetched[t][i] = idx[t][i]
      /\ IsOrderedSubsequence(filtered[t], fetched[t])
      /\ (op.min_year = None /\ op.max_year = None) => filtered[t] = fetched[t]
      /\ Len(result[t]) = Min(op.top_k, Len(filtered[t]))
      /\ \A i \in 1..Len(result[t]) :
           /\ result[t][i].id = filtered[t][i].id
           /\ result[t][i].similarity = filtered[t][i].similarity
      /\ IsOrderedSubsequence(result[t], idx[t])
      /\ NonIncreasingSimilarity(result[t])

\* C3 witness: the index held more than 2*top_k items of a type, the year
\* filter dropped a fetched candidate, and the bucket came out full.
C3_Witness ==
  /\ Done("recommend") /\ error = NoError
  /\ \E t \in DOMAIN result :
       /\ Len(idx[t]) > 2 * op.top_k
       /\ Len(filtered[t]) < Len(fetched[t])
       /\ Len(result[t]) = op.top_k
       /\ result[t][1].id # idx[t][1].id

SpecYearKeeps(item, min_year, max_year) ==
  \/ item.year = None
  \/ /\ (min_year = None \/ item.year[1] >= min_year[1])
     /\ (max_year = None \/ item.year[1] <= max_year[1])

\* C4: the year filter of recommend keeps a fetched candidate with a known
\* year exactly when the year lies within the supplied bounds (inclusive),
\* and always keeps a candidate without a year.
C4_YearFilterInclusive ==
  (Done("recommend") /\ error = NoError) =>
    \A t \in DOMAIN result :
      \A i \in 1..Len(fetched[t]) :
        (fetched[t][i].id \in Ids(filtered[t]))
          <=> SpecYearKeeps(fetched[t][i], op.min_year, op.max_year)

C6_SpaceFromQuery ==
  (Done("recommend") /\ (op.query.kind = "str" \/ op.query.len \in {384, 8})) =>
    LET space == IF op.query.kind = "str" \/ op.query.len = 384
                 THEN "embedding" ELSE "taste"
        requested == IF op.media_types.none THEN {"movie", "music", "book"}
                     ELSE Range(op.media_types.list)
    IN /\ error = NoError
       /\ embeds = (IF op.query.kind = "str" THEN 1 ELSE 0)
       /\ \A i \in 1..Len(searches) :
            /\ searches[i].space = space
            /\ searches[i].vec.len = (IF op.query.kind = "str" THEN 384
                                      ELSE op.query.len)
            /\ searches[i].vec.ref = (IF op.query.kind = "str" THEN "embed"
                                      ELSE op.query.ref)
       /\ {searches[i].media_type : i \in 1..Len(searches)} = requested
       /\ Len(searches) = Cardinality(requested)

\* C6 witness: a text query over several media types, embedded once.
C6_Witness ==
  /\ Done("recommend") /\ op.query.kind = "str"
  /\ Len(searches) >= 2 /\ embeds = 1
  /\ \E t \in DOMAIN result : result[t] # <<>>

OthersAmongFirst(items, n, item_id) ==
  Cardinality({i \in 1..Min(n, Len(items)) : items[i].id # item_id})

\* C7: with exclusion, each bucket of find_similar holds exactly
\* min(top_k, n) items, n being the number of items other than the source
\* among the first top_k+1 candidates of the index; so a bucket is full
\* whenever the index holds at least top_k+1 items of the type.
C7_OverRequestCompensates ==
  (Done("find_similar") /\ op.exclude /\ error = NoError) =>
    \A t \in DOMAIN result :
      /\ Len(result[t]) =
           Min(op.top_k, OthersAmongFirst(idx[t], op.top_k + 1, op.item_id))
      /\ Len(idx[t]) >= op.top_k + 1 => Len(result[t]) = op.top_k

\* C7 witness: the source sat among the first top_k+1 candidates of a type
\* holding at least top_k+1 items, and the bucket is full.
C7_Witness ==
  /\ Done("find_similar") /\ op.exclude /\ error = NoError
  /\ \E t \in DOMAIN result :
       /\ Len(idx[t]) >= op.top_k + 1
       /\ op.item_id \in Ids(Take(idx[t], op.top_k + 1))
       /\ Len(result[t]) = op.top_k

\* C8: find_similar on an id the item repository does not hold fails with
\* the not-found error (answered 404) and has issued no index search.
C8_MissingItemNotFound ==
  (Done("find_similar") /\ op.item_id \notin ItemIds) =>
    /\ error = NotFoundError
    /\ SimilarStatus(error) = 404
    /\ searches = <<>>
    /\ result = EmptyDict

\* C8 witness: find_similar was called for an absent id with media types
\* to search.
C8_Witness ==
  /\ Done("find_similar") /\ op.item_id \notin ItemIds
  /\ op.media_types.none
  /\ error = NotFoundError

\* C9: recommend_for_user for a user without a profile (no row with a
\* numeric rating) returns the empty result, raises nothing and issues no
\* index search.
C9_NoProfileEmptyResult ==
  (Done("recommend_for_user") /\ ScoredOfUser(op.user_id) = {}) =>
    /\ result = EmptyDict
    /\ error = NoError
    /\ searches = <<>>

\* C9 witness: the caller has a row without a numeric rating and asked for
\* all media types.
C9_Witness ==
  /\ Done("recommend_for_user") /\ ScoredOfUser(op.user_id) = {}
  /\ RowsOfUser(op.user_id) # {}
  /\ op.media_types.none
  /\ result = EmptyDict

UnratedPositions(items, n, rated) ==
  {i \in 1..Min(n, Len(items)) : items[i].id \notin rated}

NthOf(P, j) == CHOOSE i \in P : Cardinality({p \in P : p < i}) = j - 1

\* C10: for a user with a profile, recommend_for_user searches each requested
\* type once, in the embedding space, with the aggregate embedding, for
\* 3*top_k candidates, and the bucket is the first top_k of those candidates
\* whose id is not in the rated-id set, in index order.
C10_UserBucketFromEmbeddingSearch ==
  (Done("recommend_for_user") /\ ScoredOfUser(op.user_id) # {}) =>
    LET rated == IF op.exclude THEN RowsOfUser(op.user_id) ELSE {}
        requested == IF op.media_types.none THEN {"movie", "music", "book"}
                     ELSE Range(op.media_types.list)
    IN /\ error = NoError
       /\ DOMAIN result = requested
       /\ Len(searches) = Cardinality(requested)
       /\ \A i \in 1..Len(searches) :
            /\ searches[i].space = "embedding"
            /\ searches[i].vec.ref = "weighted_embedding"
            /\ searches[i].vec.len = 384
            /\ searches[i].limit = 3 * op.top_k
            /\ searches[i].media_type \in requested
       /\ \A t \in requested :
            LET P == UnratedPositions(idx[t], 3 * op.top_k, rated)
            IN /\ Len(result[t]) = Min(op.top_k, Cardinality(P))
               /\ \A j \in 1..Len(result[t]) :
                    /\ result[t][j].id = idx[t][NthOf(P, j)].id
                    /\ result[t][j].similarity = idx[t][NthOf(P, j)].similarity

\* C10 witness: the index held more than 3*top_k items of a type, a rated
\* item was ranked ahead of the first returned one, and the bucket is full.
C10_Witness ==
  /\ Done("recommend_for_user") /\ op.exclude /\ error = NoError
  /\ \E t \in DOMAIN result :
       /\ Len(idx[t]) > 3 * op.top_k
       /\ idx[t][1].id \in RowsOfUser(op.user_id)
       /\ Len(result[t]) = op.top_k

(* ============ defaults and formatting of both entry points ============ *)
Served == Done("recommend") \/ Done("recommend_for_user")

Requested ==
  IF op.media_types.none THEN {"movie", "music", "book"}
  ELSE Range(op.media_types.list)

HasProfile == Done("recommend") \/ ScoredOfUser(op.user_id) # {}

\* C11: when media_types is omitted, recommend and recommend_for_user (for
\* a user with a profile) issue one search per known type, all three of
\* them; and whatever was requested, the returned mapping has exactly the
\* requested media types as its keys, empty buckets included.
C11_OneKeyPerRequestedType ==
  (Served /\ HasProfile /\ error = NoError) =>
    /\ DOMAIN result = Requested
    /\ {searches[i].media_type : i \in 1..Len(searches)} = Requested
    /\ op.media_types.none =>
         /\ Len(searches) = 3
         /\ \A t \in {"movie", "music", "book"} :
              \E i \in 1..3 : searches[i].media_type = t

\* C11 witness: recommend_for_user without media_types, for a user with a
\* profile, returned three keys of which one bucket is filled and the
\* music and book buckets are empty although the index held a book.
C11_Witness ==
  /\ Done("recommend_for_user") /\ op.media_types.none /\ error = NoError
  /\ ScoredOfUser(op.user_id) # {}
  /\ Cardinality(DOMAIN result) = 3
  /\ result["movie"] # <<>>
  /\ result["music"] = <<>>
  /\ result["book"] = <<>> /\ idx["book"] # <<>>

RowOf(rows, id) == rows[PosIn(rows, id)]

\* C12: every returned item carries the similarity and the metadata of the
\* index row it came from; its description is the row's description when
\* that has at most 200 characters, and otherwise the first 200 characters
\* of it followed by the ellipsis marker.
C12_FormattingOfSurvivors ==
  (Served /\ error = NoError) =>
    \A t \in DOMAIN result : \A i \in 1..Len(result[t]) :
      LET item == result[t][i]
          row == RowOf(idx[t], item.id)
      IN /\ item.id \in Ids(idx[t])
         /\ item.similarity = row.similarity
         /\ item.metadata = row.metadata
         /\ item.description.of = row.description.of
         /\ row.description.len <= 200 => item.description = row.description
         /\ row.description.len > 200 =>
              /\ item.description.len = 200
              /\ item.description.ellipsis

\* C12 witness: one bucket holds an item whose description has exactly 200
\* characters and an item whose description is longer.
C12_Witness ==
  /\ Served /\ error = NoError
  /\ \E t \in DOMAIN result : \E i, j \in 1..Len(result[t]) :
       /\ RowOf(idx[t], result[t][i].id).description.len = 200
       /\ ~result[t][i].description.ellipsis
       /\ RowOf(idx[t], result[t][j].id).description.len > 200
       /\ result[t][j].description.ellipsis

(* ======================= properties of the profile ===================== *)
Profiled == Done("compute_user_taste_profile")

RatingOf(i) == profiled.ratings[i].rating

RECURSIVE SumOver(_, _)
SumOver(S, f) ==
  IF S = {} THEN 0
  ELSE LET x == CHOOSE y \in S : TRUE IN f[x] + SumOver(S \ {x}, f)

C14_NonPositiveWeightFails ==
  (Profiled /\ \E i \in 1..Len(profiled.ratings) : RatingOf(i) <= 0) =>
    /\ profiled.error # NoError
    /\ profiled.value = None

\* C15: the aggregate embedding and the aggregate taste vector of a
\* profile are, component by component, the sum of rating_i * v_i over the
\* rated items divided by the sum of the ratings, each taken over its own
\* input vectors.  One rated item gives back its own vectors; ratings 5 on
\* [1,0,...,0] and 1 on [-1,0,...,0] give 4/6 in the first dimension and
\* zero in the others.
C15_WeightedMean ==
  (Profiled /\ profiled.value # None) =>
    LET p == profiled.value[1]
        R == 1..Len(profiled.ratings)
        W == SumOver(R, [i \in R |-> RatingOf(i)])
        tv == p.taste_vector_8d
        emb == p.embedding_384d
    IN /\ tv.den = W /\ emb.den = W
       /\ Len(tv.num) = 8 /\ Len(emb.num) = 384
       /\ \A j \in 1..8 :
            tv.num[j] = SumOver(R, [i \in R |->
                          RatingOf(i) * profiled.ratings[i].taste_vector[j]])
       /\ \A j \in 1..384 :
            emb.num[j] = SumOver(R, [i \in R |->
                           RatingOf(i) * profiled.ratings[i].embedding[j]])
       /\ Len(profiled.ratings) = 1 =>
            /\ \A j \in 1..8 :
                 tv.num[j] = profiled.ratings[1].taste_vector[j] * tv.den
            /\ \A j \in 1..384 :
                 emb.num[j] = profiled.ratings[1].embedding[j] * emb.den
       /\ (/\ Len(profiled.ratings) = 2
           /\ RatingOf(1) = 5 /\ RatingOf(2) = 1
           /\ profiled.ratings[1].taste_vector = Unit(8, 1, 10)
           /\ profiled.ratings[2].taste_vector = Unit(8, 1, -10)) =>
            /\ 6 * tv.num[1] = 4 * 10 * tv.den
            /\ \A j \in 2..8 : tv.num[j] = 0

\* C15 witness: the profile of rating 5 on [1,0,...,0] and rating 1 on
\* [-1,0,...,0].
C15_Witness ==
  /\ Profiled /\ profiled.value # None
  /\ Len(profiled.ratings) = 2
  /\ RatingOf(1) = 5 /\ RatingOf(2) = 1
  /\ profiled.ratings[1].taste_vector = Unit(8, 1, 10)
  /\ profiled.ratings[2].taste_vector = Unit(8, 1, -10)
  /\ profiled.value[1].taste_vector_8d.num[1] = 40
  /\ profiled.value[1].taste_vector_8d.den = 6

\* C16: the breakdown of a profile has one entry per basis dimension, in
\* basis order, carrying that dimension's score; the tendency is the
\* positive label exactly when the score is above 0.1, the negative label
\* exactly when it is below -0.1, and balanced in between, the scores 0.1
\* and -0.1 included.  (With s = num/den in tenths, s > 1 iff
\* num*den > den*den.)
C16_BreakdownThresholds ==
  (Profiled /\ profiled.value # None) =>
    LET p == profiled.value[1]
        b == p.breakdown
    IN /\ Len(b) = 8
       /\ \A i \in 1..8 :
            LET n == b[i].score.num * b[i].score.den
                d == b[i].score.den * b[i].score.den
            IN /\ b[i].dimension = DimensionNames[i]
               /\ b[i].score.num = p.taste_vector_8d.num[i]
               /\ b[i].score.den = p.taste_vector_8d.den
               /\ b[i].tendency = PositiveLabels[i] <=> n > d
               /\ b[i].tendency = NegativeLabels[i] <=> n < -d
               /\ b[i].tendency = "Balanced" <=> (n <= d /\ n >= -d)

\* C16 witness: one breakdown holds a score of exactly 0.1 and one of
\* exactly -0.1, both balanced, next to a positive and a negative entry.
C16_Witness ==
  /\ Profiled /\ profiled.value # None
  /\ LET b == profiled.value[1].breakdown
     IN /\ \E i \in 1..8 : b[i].score.num = b[i].score.den
                             /\ b[i].tendency = "Balanced"
        /\ \E i \in 1..8 : b[i].score.num = -b[i].score.den
                             /\ b[i].tendency = "Balanced"
        /\ \E i \in 1..8 : b[i].tendency = PositiveLabels[i]
        /\ \E i \in 1..8 : b[i].tendency = NegativeLabels[i]

(* ========================= properties of explain ======================= *)
Explained == Done("explain_match") \/ Done("explain_endpoint")

IsLookupError(e) == e.type = "ValueError" /\ e.msg[1] = "Item "

IsLengthError(e) ==
  \/ e.type = "RequestValidationError"
  \/ e.type = "ValueError" /\ e.msg[1] # "Item "

ZeroNorm(v) == \A i \in 1..Len(v) : v[i] = 0

\* C17: explain called with a profile vector whose length is not 8 fails
\* with the validation error, whatever the item_id, an absent one
\* included, and returns nothing.
C17_LengthCheckedBeforeLookup ==
  (Done("explain_match") /\ Len(explained.taste_vector) # 8) =>
    /\ IsLengthError(explained.error)
    /\ explained.value = None

\* C18: explain reports an absent item and a malformed vector by different
\* errors, and the status mapping of the API answers the first 404 and
\* the second 422, never the other way round, whatever the item_id is
\* (one that itself reads "Not Found" included).  Every call for an
\* absent item that reaches explain ends in the lookup error.
C18_NotFoundAndValidationApart ==
  Explained =>
    /\ ~(IsLookupError(explained.error) /\ IsLengthError(explained.error))
    /\ IsLookupError(explained.error) =>
         /\ explained.item_id \notin ItemIds
         /\ explained.error.msg[2] = explained.item_id
         /\ ExplainStatus(explained.error) = 404
         /\ Done("explain_endpoint") => explained.status = 404
    /\ IsLengthError(explained.error) =>
         /\ Len(explained.taste_vector) # 8
         /\ explained.error.type = "ValueError" =>
              ExplainStatus(explained.error) = 422
         /\ Done("explain_endpoint") => explained.status = 422
    /\ Done("explain_endpoint") =>
         /\ explained.status = 404 => IsLookupError(explained.error)
         /\ explained.status = 422 => IsLengthError(explained.error)

\* C18 witness: a direct call with a malformed vector for a present item
\* ended in the validation error, which the API mapping answers 422.
C18_Witness ==
  /\ Done("explain_match")
  /\ explained.item_id \in ItemIds
  /\ explained.error.type = "ValueError"
  /\ ~IsLookupError(explained.error)
  /\ ExplainStatus(explained.error) = 422

\* C19: when the profile vector or the item's taste vector has zero norm,
\* explain fails and returns no result; no returned result carries an
\* undefined overall_similarity.
C19_ZeroNormFails ==
  Explained =>
    /\ (/\ explained.item_id \in ItemIds
        /\ Len(explained.taste_vector) = 8
        /\ \/ ZeroNorm(explained.taste_vector)
           \/ ZeroNorm(TasteOf(explained.item_id))) =>
         /\ explained.error # NoException
         /\ explained.value = None
    /\ explained.value # None => ~explained.value[1].overall_similarity.nan

BasisIndex(name) == CHOOSE i \in 1..8 : DimensionNames[i] = name

\* C20: dimension_matches is a permutation of the 8 basis dimensions, each
\* with contribution = profile_i * item_i, ordered by non-increasing
\* absolute contribution; dimensions of equal absolute contribution stand
\* in basis order.
C20_MatchesSortedStable ==
  (Explained /\ explained.value # None) =>
    LET dm == explained.value[1].dimension_matches
    IN /\ Len(dm) = 8
       /\ {dm[k].dimension : k \in 1..8} = Range(DimensionNames)
       /\ \A k \in 1..8 :
            LET i == BasisIndex(dm[k].dimension)
            IN /\ dm[k].user_score = explained.taste_vector[i]
               /\ dm[k].item_score = TasteOf(explained.item_id)[i]
               /\ dm[k].contribution =
                    explained.taste_vector[i] * TasteOf(explained.item_id)[i]
               /\ dm[k].aligned <=> dm[k].contribution > 0
       /\ \A k, l \in 1..8 :
            k < l =>
              /\ Abs(dm[k].contribution) >= Abs(dm[l].contribution)
              /\ Abs(dm[k].contribution) = Abs(dm[l].contribution) =>
                   BasisIndex(dm[k].dimension) < BasisIndex(dm[l].dimension)

\* C20 witness: the first match is not the first basis dimension, and two
\* dimensions whose contributions are opposite numbers stand next to each
\* other in basis order.
C20_Witness ==
  /\ Explained /\ explained.value # None
  /\ LET dm == explained.value[1].dimension_matches
     IN /\ dm[1].dimension # DimensionNames[1]
        /\ \E k \in 1..7 :
             /\ dm[k].contribution # 0
             /\ dm[k].contribution = -dm[k + 1].contribution

AlignedAmongFirstThree(dm) == {k \in 1..3 : dm[k].aligned}

\* C21: the explanation holds one phrase for each aligned entry among the
\* first three of the sorted dimension_matches, in that order, joined by
\* ". "; a phrase uses the positive descriptor of its dimension when both
\* scores are positive and the negative descriptor when both are negative.
\* The fallback message is the explanation exactly when none of the first
\* three entries is aligned.
C21_ExplanationFromTopThree ==
  (Explained /\ explained.value # None) =>
    LET dm == explained.value[1].dimension_matches
        e == explained.value[1].explanation
        A == AlignedAmongFirstThree(dm)
    IN /\ e = <<[text |-> "General aesthetic alignment"]>> <=> A = {}
       /\ A # {} =>
            /\ Len(e) = 2 * Cardinality(A) - 1
            /\ \A j \in 1..Cardinality(A) :
                 LET m == dm[NthOf(A, j)]
                 IN /\ e[2 * j - 1].text = "Both lean towards "
                    /\ e[2 * j - 1].dimension.lower = m.dimension
                    /\ e[2 * j - 1].descriptor.lower.of = m.dimension
                    /\ (m.user_score > 0 /\ m.item_score > 0) =>
                         e[2 * j - 1].descriptor.lower.prompt = "positive_prompt"
                    /\ (m.user_score < 0 /\ m.item_score < 0) =>
                         e[2 * j - 1].descriptor.lower.prompt = "negative_prompt"
            /\ \A j \in 1..(Cardinality(A) - 1) : e[2 * j] = [text |-> ". "]

\* C21 witness: of the first three sorted entries the first and the third
\* are aligned and the second is not, a fourth entry further down is
\* aligned too, and the explanation has the two phrases, one positive and
\* one negative.
C21_Witness ==
  /\ Explained /\ explained.value # None
  /\ LET dm == explained.value[1].dimension_matches
         e == explained.value[1].explanation
     IN /\ dm[1].aligned /\ ~dm[2].aligned /\ dm[3].aligned /\ dm[4].aligned
        /\ Len(e) = 3
        /\ e[1].descriptor.lower.prompt # e[3].descriptor.lower.prompt

ProfileEqualsItem ==
  /\ Explained
  /\ explained.item_id \in ItemIds
  /\ explained.taste_vector = TasteOf(explained.item_id)

IsOne(similarity) ==
  /\ ~similarity.nan
  /\ similarity.dot > 0
  /\ similarity.dot * similarity.dot = similarity.norms2

RECURSIVE SumBetween(_, _, _)
SumBetween(f, lo, hi) ==
  IF lo > hi THEN 0
  ELSE IF lo = hi THEN f[lo]
  ELSE LET mid == (lo + hi) \div 2
       IN SumBetween(f, lo, mid) + SumBetween(f, mid + 1, hi)

\* C23: project gives, for each basis direction in order, the dot product
\* of that direction with the embedding; project(a+b) = project(a) +
\* project(b) and project(c*a) = c*project(a); with directions [1,0,0] and
\* [0,1,0], project([2,5,9]) = [2,5]; the batched form gives, row by row
\* and in input order, what the single form gives.
C23_ProjectIsLinear ==
  Done("project") =>
    LET dv == engine.direction_vectors
        q == projected
    IN /\ Len(q.of_a) = Len(dv)
       /\ \A i \in 1..Len(dv) :
            q.of_a[i] = SumBetween([j \in 1..384 |-> q.a[j] * dv[i][j]], 1, 384)
       /\ \A i \in 1..Len(dv) :
            /\ q.of_sum[i] = q.of_a[i] + q.of_b[i]
            /\ q.of_scaled[i] = q.c * q.of_a[i]
       /\ q.of_batch = <<q.of_a, q.of_b>>
       /\ Project(<<<<1, 0, 0>>, <<0, 1, 0>>>>, <<2, 5, 9>>) = <<2, 5>>

\* C23 witness: two different embeddings with non-zero projections, a
\* negative scalar, and a basis whose rows are not axis vectors.
C23_Witness ==
  /\ Done("project")
  /\ projected.a # projected.b
  /\ projected.c < 0
  /\ \E i \in 1..8 : projected.of_a[i] > 0 /\ projected.of_b[i] < 0
  /\ \E j \in 1..384 : engine.direction_vectors[1][j] = -1

UnitNorm(v) == Dot(v, v) = 1

\* C24: an engine exists after construction only if the loaded basis has
\* exactly 8 rows, each of length 384 and of unit norm; and no operation
\* changes the basis of a constructed engine.
C24_BasisValidated ==
  engine.state = "ready" =>
    /\ Len(engine.direction_vectors) = 8
    /\ \A i \in 1..Len(engine.direction_vectors) :
         /\ Len(engine.direction_vectors[i]) = 384
         /\ UnitNorm(engine.direction_vectors[i])

RatingFields == {"rating", "notes", "favorite", "want_to_consume"}

\* C26: a profile computed after any sequence of add_rating and
\* delete_rating calls reports as num_ratings the number of rows the user
\* has now with a non-null rating, and is the no-profile signal exactly
\* when that number is zero.
C26_ProfileFromCurrentRows ==
  Done("compute_user_taste_profile") =>
    LET n == Cardinality(ScoredOfUser(op.user_id))
    IN /\ profiled.error = NoError
       /\ (profiled.value = None) <=> (n = 0)
       /\ profiled.value # None => profiled.value[1].num_ratings = n

\* C26 witness: the user has two rows, one of them without a rating, while
\* another user has a rating_call row; the profile counts one rating.
C26_Witness ==
  /\ Done("compute_user_taste_profile") /\ op.user_id = "u1"
  /\ <<"u2", "m1">> \in DOMAIN user_ratings
  /\ Cardinality(RowsOfUser("u1")) = 2
  /\ \E i \in RowsOfUser("u1") :
       /\ user_ratings[<<"u1", i>>].rating = None
       /\ user_ratings[<<"u1", i>>].favorite = Some(TRUE)
  /\ profiled.value # None
  /\ profiled.value[1].num_ratings = 1

\* C28: add_rating leaves every other row alone and never adds a second
\* row for its (user_id, item_id); each field of its row is the given
\* value when one is given and the stored value when None is given, so a
\* stored rating stays non-null; a row goes away only through
\* delete_rating, which removes exactly the row of its key.
C28_UpsertKeepsWhatIsNotGiven ==
  LET key == <<rating_call.user_id, rating_call.item_id>>
      old == rating_call.before
  IN /\ (pc = "done" /\ rating_call.call = "add_rating") =>
          /\ DOMAIN user_ratings = (DOMAIN old) \cup {key}
          /\ Cardinality(DOMAIN user_ratings) =
               Cardinality(DOMAIN old) + (IF key \in DOMAIN old THEN 0 ELSE 1)
          /\ \A k \in (DOMAIN old) \ {key} : user_ratings[k] = old[k]
          /\ \A f \in RatingFields :
               user_ratings[key][f] =
                 IF rating_call.given[f] # None THEN rating_call.given[f]
                 ELSE IF key \in DOMAIN old THEN old[key][f] ELSE None
          /\ (key \in DOMAIN old /\ old[key].rating # None) =>
               user_ratings[key].rating # None
     /\ (pc = "done" /\ rating_call.call = "delete_rating") =>
          /\ DOMAIN user_ratings = (DOMAIN old) \ {key}
          /\ \A k \in DOMAIN user_ratings : user_ratings[k] = old[k]
          /\ rating_call.deleted = (key \in DOMAIN old)

\* C28 witness: a row with a rating, notes and a favorite mark is updated
\* by a call that gives only favorite = False.
C28_Witness ==
  LET key == <<rating_call.user_id, rating_call.item_id>>
  IN /\ pc = "done" /\ rating_call.call = "add_rating"
     /\ key \in DOMAIN rating_call.before
     /\ rating_call.before[key] = RatingRecord(Some(5), Some("n"), Some(TRUE), None)
     /\ rating_call.given = RatingRecord(None, None, Some(FALSE), None)
     /\ user_ratings[key] = RatingRecord(Some(5), Some("n"), Some(FALSE), None)

\* C27: when recommend_for_user excludes rated items, what it drops from
\* the fetched candidates of a type is exactly the candidates the user has
\* a row for: no item whose rating feeds the profile is kept, and no item
\* with only a favorite or want-to-consume mark is kept either.
C27_ExcludedCoversProfileItems ==
  (Done("recommend_for_user") /\ op.exclude /\ error = NoError) =>
    LET feeding == ScoredOfUser(op.user_id)
        marked == RowsOfUser(op.user_id) \ feeding
    IN \A t \in DOMAIN fetched :
         /\ Ids(filtered[t]) \cap feeding = {}
         /\ Ids(filtered[t]) \cap marked = {}
         /\ Ids(fetched[t]) \ Ids(filtered[t]) =
              Ids(fetched[t]) \cap (feeding \cup marked)
         /\ Ids(result[t]) \subseteq Ids(filtered[t])

\* C27 witness: the user rated one item and only marked another; the
\* marked one was among the fetched candidates and was dropped.
C27_Witness ==
  /\ Done("recommend_for_user") /\ op.exclude /\ error = NoError
  /\ ScoredOfUser(op.user_id) = {"b1"}
  /\ user_ratings[<<op.user_id, "b1">>].rating = Some(5)
  /\ RowsOfUser(op.user_id) = {"b1", "m1"}
  /\ user_ratings[<<op.user_id, "m1">>].favorite = Some(TRUE)
  /\ \E t \in DOMAIN fetched :
       /\ "m1" \in Ids(fetched[t])
       /\ "m1" \notin Ids(filtered[t])
       /\ filtered[t] # <<>>

(* ====================== properties of onboarding ======================= *)
Submitted == Done("submit_initial_preferences")

ExistingEntries ==
  {i \in 1..Len(onboarded.ratings) :
     onboarded.ratings[i].item_id \in {"m1", "b1", "s1", "g1"}}

\* the request rates an existing item of the given media type
RatesA(media_type) ==
  \E i \in ExistingEntries :
    onboarded.ratings[i].item_id =
      (IF media_type = "movie" THEN "m1"
       ELSE IF media_type = "book" THEN "b1" ELSE "s1")

\* C29: submit_initial_preferences changes the rating table only when the
\* request rates an existing movie, an existing book and an existing music
\* item; a 400 leaves the table as it was; an accepted request reports as
\* items_added the number of its entries whose item exists, and each such
\* item then holds the rating of its last entry.
C29_ValidatesBeforeWriting ==
  Submitted =>
    LET complete == RatesA("movie") /\ RatesA("book") /\ RatesA("music")
    IN /\ onboarded.status \in {200, 400, 404}
       /\ user_ratings # onboarded.before => complete
       /\ onboarded.status = 400 =>
            /\ user_ratings = onboarded.before
            /\ ~complete
       /\ onboarded.status = 200 =>
            /\ complete
            /\ onboarded.items_added = Cardinality(ExistingEntries)
            /\ \A i \in ExistingEntries :
                 LET key == <<onboarded.user_id, onboarded.ratings[i].item_id>>
                 IN /\ key \in DOMAIN user_ratings
                    /\ (\A j \in ExistingEntries :
                          j > i => onboarded.ratings[j].item_id #
                                     onboarded.ratings[i].item_id)
                         => user_ratings[key].rating =
                              Some(onboarded.ratings[i].rating)

\* C29 witness: an accepted request of four entries, one of them for an
\* item that does not exist, stored three ratings.
C29_Witness ==
  /\ Submitted /\ onboarded.status = 200
  /\ Len(onboarded.ratings) = 4
  /\ \E i \in 1..4 : onboarded.ratings[i].item_id = "zz"
  /\ onboarded.items_added = 3
  /\ user_ratings # onboarded.before

(* =================== properties of the migration runner ================ *)
\* the files of the run that were pending when it started, in file order
PendingAtStart ==
  SelectSeq(migration.files,
            LAMBDA f : f \notin migration.applied_versions)

\* C30: the SQL of a version is committed at most once, and a version is
\* recorded in schema_migrations exactly when its SQL is committed; a run
\* executes the pending files in sorted order without leaving one out; a
\* run that failed has rolled back, has not recorded the failed version
\* and executed nothing after it; in the next run the failed version is
\* still pending, and it is the first one executed unless a file that
\* sorts before it was added in between.
C30_MigrationsOnceInOrder ==
  LET m == migration
      n == Len(m.executed)
  IN /\ \A v \in MigrationStems : m.schema[v] <= 1
     /\ m.applied = {v \in MigrationStems : m.schema[v] = 1}
     /\ n <= Len(PendingAtStart)
     /\ \A k \in 1..n : m.executed[k] = PendingAtStart[k]
     /\ \A k \in 1..(n - 1) :
          /\ m.executed[k] \in m.applied
          /\ m.executed[k][1] < m.executed[k + 1][1]
               \/ (/\ m.executed[k][1] = m.executed[k + 1][1]
                   /\ Len(m.executed[k]) < Len(m.executed[k + 1]))
     /\ m.at \in {"idle", "ok", "failed", "loop"} =>
          m.tx_sql = {} /\ m.tx_rec = {}
     /\ m.at = "ok" => \A k \in 1..Len(m.files) : m.files[k] \in m.applied
     /\ m.at = "failed" =>
          /\ m.failed \notin m.applied
          /\ m.schema[m.failed] = 0
          /\ n > 0 /\ m.executed[n] = m.failed
     /\ m.resume_from # NoVersion =>
          /\ m.resume_from \notin m.applied_versions
          /\ \E k \in 1..Len(m.files) : m.files[k] = m.resume_from
          /\ (m.at \in {"ok", "failed"} /\ PendingAtStart[1] = m.resume_from)
               => (n > 0 /\ m.executed[1] = m.resume_from)

\* C30 witness: a run failed at a version after applying an earlier one,
\* and the next run skipped the applied one, executed the failed version
\* again and committed it.
C30_Witness ==
  /\ migration.resume_from = <<1, 0>>
  /\ migration.files = << <<1>>, <<1, 0>>, <<2>> >>
  /\ migration.applied_versions = {<<1>>}
  /\ migration.applied = {<<1>>, <<1, 0>>}
  /\ migration.executed = << <<1, 0>> >>
  /\ migration.at = "loop"

====
